---- MODULE Spec2Model ----
(***************************************************************************)
(* Upload-area hash cache of cellrex (backend/router/filemanagement.py):   *)
(* the FileWatcher event handler, the hashing tasks run by the thread      *)
(* pool, the lifespan manager and the /hash lookup.                        *)
(*                                                                         *)
(* SHA-256 is modelled as a collision-free function of the byte stream     *)
(* fed to update(): a digest is represented by that stream itself.  A      *)
(* byte is a natural number and one read() returns one byte (the 1 MiB     *)
(* buffer scaled down to BufferSize).                                      *)
(***************************************************************************)
EXTENDS Integers, Sequences, FiniteSets, TLC

\* ------------------------------------------------------------------ bounds
MaxOps == 2          \* operations of the environment: producers' changes, lookups

\* -------------------------------------------------------- program constants
MaxWorkers == 2      \* ThreadPoolExecutor(max_workers=os.cpu_count())
Retries == 3         \* calculate_hash(retries=3), calculate_folder_hash(retries=3)
BufferSize == 1      \* buffer_size, scaled from 1024 * 1024 to one byte

\* ------------------------------------------------------------- value sets
Names == {"a", "b"}                      \* top-level names in UPLOAD_PATH
Contents == {<<1>>, <<2>>}               \* complete file contents
NewContents == {<<2>>}                   \* what producers write while the service runs
RelX == <<7>>                            \* relative path of a contained file
Listings == {{}, {<<RelX, <<1>>>>}}      \* directory trees: sets of <<relpath, content>>

\* ------------------------------------------------------------ byte streams
RECURSIVE LexLess(_, _)
\* str.__lt__ on paths: lexicographic order of byte sequences
LexLess(s, t) ==
  IF t = <<>> THEN FALSE
  ELSE IF s = <<>> THEN TRUE
  ELSE IF Head(s) # Head(t) THEN Head(s) < Head(t)
  ELSE LexLess(Tail(s), Tail(t))

RECURSIVE SortPaths(_)
\* all_files.sort(): the paths of S in ascending order
SortPaths(S) ==
  IF S = {} THEN <<>>
  ELSE LET m == CHOOSE p \in S : \A q \in S \ {p} : LexLess(p, q)
       IN  <<m>> \o SortPaths(S \ {m})

\* the regular files os.walk finds under a directory tree
WalkFiles(listing) == {pc[1] : pc \in listing}

\* content of the file at relative path p of a directory tree
ContentAt(listing, p) == (CHOOSE pc \in listing : pc[1] = p)[2]

RECURSIVE FoldContents(_, _, _)
\* the byte stream of the contents alone, the relative paths left out
FoldContents(listing, files, i) ==
  IF i > Len(files) THEN <<>>
  ELSE ContentAt(listing, files[i]) \o FoldContents(listing, files, i + 1)

RECURSIVE FoldFiles(_, _, _)
\* the byte stream update() receives for files[i..] read without any error
FoldFiles(listing, files, i) ==
  IF i > Len(files) THEN <<>>
  ELSE files[i] \o ContentAt(listing, files[i]) \o FoldFiles(listing, files, i + 1)

\* hexdigest() of a directory tree read cleanly
FolderDigest(listing) == FoldFiles(listing, SortPaths(WalkFiles(listing)), 1)

\* hexdigest() of a file read cleanly
FileDigest(data) == data

\* ------------------------------------------------------------------- state
VARIABLES
  fs,        \* UPLOAD_PATH: name -> item
  cache,     \* HASH_CACHE: a dict, name -> entry
  tasks,     \* EXECUTOR's unfinished work items and uncollected futures, oldest first
  nsub,      \* number of work items submitted so far
  executor,  \* EXECUTOR: "none" | "running" | "shutdown"
  observer,  \* OBSERVER: "none" | "alive" | "stopping" (told to stop, its
             \* thread still in a dispatch) | "stopped" | "crashed" (its thread
             \* left by an exception of the handler)
  events,    \* events the observer has detected and not yet dispatched
  lpc,       \* position of lifespan()
  now,       \* time.time()
  resp,      \* the last response of get_hash
  ops,       \* number of operations of the environment so far
  hist,      \* history: name -> digests of the complete versions of the item
  last,      \* history: name -> type of the last event handled for the name
  erred,     \* history: some open() or read() of a work item raised
  hx,        \* the directory tree and digests of the hashing experiments
  call       \* the arguments and the outcome of a call that builds a file path

vars == <<fs, cache, tasks, nsub, executor, observer, events, lpc, now, resp,
          ops, hist, last, erred, hx, call>>

\* ------------------------------------------------------------ record shapes
NoItem == [kind |-> "none", data |-> <<>>, writing |-> FALSE, target |-> <<>>,
           files |-> {}]
FileItem(d, w, tg) == [kind |-> "file", data |-> d, writing |-> w, target |-> tg,
                       files |-> {}]
DirItem(l) == [kind |-> "dir", data |-> <<>>, writing |-> FALSE, target |-> <<>>,
               files |-> l]

UploadPath == <<"upload">>                \* UPLOAD_PATH

\* os.path.join(UPLOAD_PATH, name)
PathOf(n) == Append(UploadPath, n)

\* pathlib.Path(p).name: the last component
PathName(p) == p[Len(p)]

NoResult == [filename |-> "", hash |-> <<>>, timestamp |-> 0, seq |-> 0,
             noroot |-> FALSE]

\* a result that names the folder of the item instead of the item
ResultNamesParent(key, acc, ts, id, noroot) ==
  [filename |-> UploadPath[1], hash |-> acc, timestamp |-> ts, seq |-> id,
   noroot |-> noroot]

\* result dict of lines 139-143 / 197-201. Two fields are history, not fields
\* of the program's dict: seq, the submission number of the work item that built
\* it, and noroot, that the item's root path did not exist when it started
Result(key, acc, ts, id, noroot) ==
  [filename |-> key, hash |-> acc, timestamp |-> ts, seq |-> id,
   noroot |-> noroot]

NewTask(id, kind, key, swept) ==
  [id |-> id, kind |-> kind, key |-> key, pc |-> "queued", attempt |-> 0,
   acc |-> <<>>, files |-> <<>>, idx |-> 0, ok |-> FALSE, res |-> NoResult,
   swept |-> swept, busy |-> 0, noroot |-> FALSE]

NoResp == [name |-> "", code |-> 0, hash |-> <<>>]

Event(type, src, dest, isdir) ==
  [event_type |-> type, src_path |-> src, dest_path |-> dest,
   is_directory |-> isdir]

\* a pop that empties the dict
PopAll(d, key) == <<>>

\* dict.pop(key, None)
Pop(d, key) == [k \in (DOMAIN d) \ {key} |-> d[k]]

\* d[key] = value
Put(d, key, value) == [k \in (DOMAIN d) \cup {key} |-> IF k = key THEN value ELSE d[k]]

Digest(item) ==
  IF item.kind = "dir" THEN FolderDigest(item.files) ELSE FileDigest(item.data)

\* no hashing experiment: the service runs
NoExperiment == [op |-> "", tree |-> {}, digest |-> <<>>, before |-> <<>>,
                 walk |-> <<>>]

\* no call that builds a file path: the service runs
NoCall == [via |-> "", input_dict |-> <<>>, key_order |-> <<>>, done |-> FALSE,
           error |-> "", file_path |-> <<>>]

\* ------------------------------------------------------------------- Init
\* what UPLOAD_PATH holds when the application starts
InitialStagings ==
  { [n \in Names |-> NoItem],
    [n \in Names |-> IF n = "a" THEN FileItem(<<1>>, FALSE, <<1>>) ELSE NoItem],
    [n \in Names |-> IF n = "a" THEN FileItem(<<1>>, FALSE, <<1>>)
                     ELSE DirItem({<<RelX, <<1>>>>})] }

Init ==
  /\ fs \in InitialStagings
  /\ cache = <<>>
  /\ tasks = <<>>
  /\ executor = "none"
  /\ observer = "none"
  /\ events = <<>>
  /\ lpc = "start"
  /\ nsub = 0
  /\ now = 1
  /\ resp = NoResp
  /\ ops = 0
  /\ hist = [n \in Names |-> IF fs[n].kind = "none" THEN {} ELSE {Digest(fs[n])}]
  /\ last = [n \in Names |-> ""]
  /\ erred = FALSE
  /\ hx = NoExperiment
  /\ call = NoCall

\* --------------------------------------------------- external producers
\* what the polling observer queues for a change it detects
Emit(evs) == IF observer = "alive" THEN events \o evs ELSE events

\* the staging directory is followed from the creation of the pool to the
\* beginning of the shutdown, for at most MaxOps operations
Producing == ops < MaxOps /\ lpc \in {"sweep", "sweep_wait", "running"}

\* a producer opens name n for writing content v: the file is created or
\* truncated and stays incomplete until the last byte is written
BeginWrite(n, v) ==
  /\ Producing
  /\ fs[n].kind \in {"none", "file"}
  /\ ~fs[n].writing
  /\ fs' = [fs EXCEPT ![n] = FileItem(<<>>, TRUE, v)]
  /\ events' = Emit(<<Event(IF fs[n].kind = "none" THEN "created" ELSE "modified",
                            PathOf(n), <<>>, FALSE)>>)
  /\ ops' = ops + 1
  /\ UNCHANGED <<cache, tasks, nsub, executor, observer, lpc, now, resp, hist,
                 last, erred, hx, call>>

\* the producer writes the next byte; after the last one the file is complete
WriteChunk(n) ==
  /\ Producing
  /\ fs[n].kind = "file"
  /\ fs[n].writing
  /\ LET d == Append(fs[n].data, fs[n].target[Len(fs[n].data) + 1])
         complete == (d = fs[n].target)
     IN  /\ fs' = [fs EXCEPT ![n] = FileItem(d, ~complete, fs[n].target)]
         /\ hist' = IF complete THEN [hist EXCEPT ![n] = @ \cup {FileDigest(d)}]
                    ELSE hist
  /\ events' = Emit(<<Event("modified", PathOf(n), <<>>, FALSE)>>)
  /\ ops' = ops + 1
  /\ UNCHANGED <<cache, tasks, nsub, executor, observer, lpc, now, resp, last,
                 erred, hx, call>>

\* a producer creates directory n holding tree l
MkDir(n, l) ==
  /\ Producing
  /\ fs[n].kind = "none"
  /\ fs' = [fs EXCEPT ![n] = DirItem(l)]
  /\ hist' = [hist EXCEPT ![n] = @ \cup {FolderDigest(l)}]
  /\ events' = Emit(<<Event("created", PathOf(n), <<>>, TRUE)>>)
  /\ ops' = ops + 1
  /\ UNCHANGED <<cache, tasks, nsub, executor, observer, lpc, now, resp, last,
                 erred, hx, call>>

\* a producer adds or removes files of directory n, leaving tree l
ChangeDir(n, l) ==
  /\ Producing
  /\ fs[n].kind = "dir"
  /\ fs[n].files # l
  /\ fs' = [fs EXCEPT ![n] = DirItem(l)]
  /\ hist' = [hist EXCEPT ![n] = @ \cup {FolderDigest(l)}]
  /\ events' = Emit(<<Event("modified", PathOf(n), <<>>, TRUE)>>)
  /\ ops' = ops + 1
  /\ UNCHANGED <<cache, tasks, nsub, executor, observer, lpc, now, resp, last,
                 erred, hx, call>>

\* a producer removes item n
Delete(n) ==
  /\ Producing
  /\ fs[n].kind # "none"
  /\ fs' = [fs EXCEPT ![n] = NoItem]
  /\ events' = Emit(<<Event("deleted", PathOf(n), <<>>, fs[n].kind = "dir")>>)
  /\ ops' = ops + 1
  /\ UNCHANGED <<cache, tasks, nsub, executor, observer, lpc, now, resp, hist,
                 last, erred, hx, call>>

\* a producer renames item n to the unused name m
Move(n, m) ==
  /\ Producing
  /\ n # m
  /\ fs[n].kind # "none"
  /\ ~fs[n].writing
  /\ fs[m].kind = "none"
  /\ fs' = [fs EXCEPT ![n] = NoItem, ![m] = fs[n]]
  /\ hist' = [hist EXCEPT ![m] = @ \cup {Digest(fs[n])}]
  /\ events' = Emit(<<Event("moved", PathOf(n), PathOf(m), fs[n].kind = "dir")>>)
  /\ ops' = ops + 1
  /\ UNCHANGED <<cache, tasks, nsub, executor, observer, lpc, now, resp, last,
                 erred, hx, call>>

\* ------------------------------------------------------------ FileWatcher
\* a submit that queues the hasher twice
SubmitTwice(kind, path, swept) ==
  tasks \o <<NewTask(nsub + 1, kind, PathName(path), swept),
             NewTask(nsub + 1, kind, PathName(path), swept)>>

\* EXECUTOR.submit(fn, path)
Submit(kind, path, swept) ==
  Append(tasks, NewTask(nsub + 1, kind, PathName(path), swept))

\* FileWatcher.on_any_event, run by the observer thread for the next event
\* lines 60-73 when the pool was shut down: EXECUTOR.submit raises RuntimeError,
\* nothing is queued, lines 75-78 are not reached and the exception leaves the
\* handler and the observer's thread
SubmitRefused ==
  /\ observer' = "crashed"
  /\ UNCHANGED <<cache, tasks, nsub, last>>

\* FileWatcher.on_any_event, run by the observer thread for the next event; a
\* thread that was told to stop leaves its loop after the dispatch it is in
on_any_event ==
  /\ observer \in {"alive", "stopping"}
  /\ events # <<>>
  /\ LET event == Head(events)
         target == IF event.event_type # "moved" THEN event.src_path
                   ELSE event.dest_path
         handled == IF event.event_type = "moved"
                    THEN [last EXCEPT ![PathName(event.src_path)] = "moved_from",
                                      ![PathName(event.dest_path)] = "moved_to"]
                    ELSE [last EXCEPT ![PathName(event.src_path)] = event.event_type]
         after == IF observer = "stopping" THEN "stopped" ELSE observer
     IN  IF event.event_type = "deleted"
         THEN /\ cache' = Pop(cache, PathName(event.src_path))
              /\ last' = handled
              /\ observer' = after
              /\ UNCHANGED <<tasks, nsub>>
         ELSE IF executor # "running" THEN SubmitRefused
         ELSE /\ tasks' = Submit(IF event.is_directory THEN "dir" ELSE "file",
                                 target, FALSE)
              /\ nsub' = nsub + 1
              /\ cache' = IF event.event_type = "moved"
                          THEN Pop(cache, PathName(event.src_path)) ELSE cache
              /\ last' = handled
              /\ observer' = after
  /\ events' = Tail(events)
  /\ UNCHANGED <<fs, executor, lpc, now, resp, ops, hist, erred, hx, call>>

\* ----------------------------------------------------------- worker tasks
Running(t) == tasks[t].pc \in {"open", "store"}

\* the work item returned (None unless ok): its future is done. Only the sweep
\* keeps the futures of its work items; the others are dropped
Finished(task, ok) ==
  IF task.swept
  THEN <<[task EXCEPT !.pc = "done", !.ok = ok, !.acc = <<>>, !.files = <<>>,
                      !.idx = 0, !.attempt = 0, !.busy = 0, !.noroot = FALSE,
                      !.res = IF ok THEN task.res ELSE NoResult]>>
  ELSE <<>>

\* the work items with item t replaced by the items of seq
Splice(t, seq) == SubSeq(tasks, 1, t - 1) \o seq \o SubSeq(tasks, t + 1, Len(tasks))

\* a result dict without its timestamp
BuiltUndated(task) ==
  [task EXCEPT !.pc = "store",
               !.res = Result(task.key, task.acc, 0, task.id, task.noroot)]

\* lines 135-143 / 191-201: hexdigest() and the result dict
Built(task) ==
  [task EXCEPT !.pc = "store",
               !.res = Result(task.key, task.acc, now, task.id, task.noroot)]

\* lines 169-173: the for loop of calculate_folder_hash reaches file i
Advance(task, i) ==
  IF i > Len(task.files) THEN Built(task)
  ELSE [task EXCEPT !.pc = "open", !.idx = i, !.attempt = 0,
                    !.acc = task.acc \o task.files[i]]

\* an except branch that retries whatever the errno
OnIOErrorRetryAny(task, errno, read) ==
  IF task.attempt < Retries - 1
  THEN <<[task EXCEPT !.attempt = @ + 1, !.busy = @ + 1, !.acc = @ \o read]>>
  ELSE Finished(task, FALSE)

\* an except branch that retries a busy file without counting the attempts
OnIOErrorRetryAlways(task, errno, read) ==
  IF errno = "EBUSY"
  THEN <<[task EXCEPT !.attempt = @ + 1, !.busy = @ + 1, !.acc = @ \o read]>>
  ELSE Finished(task, FALSE)

\* lines 127-133 / 181-189: except IOError, after the blocks in read were
\* already fed to update(); a busy file is retried after time.sleep(delay)
OnIOError(task, errno, read) ==
  IF errno = "EBUSY" /\ task.attempt < Retries - 1
  THEN <<[task EXCEPT !.attempt = @ + 1, !.busy = @ + 1, !.acc = @ \o read]>>
  ELSE Finished(task, FALSE)

\* the file the task's open() names: its bytes, or the errno open() raises
\* when there is no such regular file
Target(task) ==
  IF task.kind = "file"
  THEN IF fs[task.key].kind = "file" THEN [errno |-> "", data |-> fs[task.key].data]
       ELSE IF fs[task.key].kind = "dir" THEN [errno |-> "EISDIR", data |-> <<>>]
       ELSE [errno |-> "ENOENT", data |-> <<>>]
  ELSE IF fs[task.key].kind = "dir"
          /\ task.files[task.idx] \in WalkFiles(fs[task.key].files)
       THEN [errno |-> "",
             data |-> ContentAt(fs[task.key].files, task.files[task.idx])]
       ELSE [errno |-> "ENOENT", data |-> <<>>]

\* the blocks f.read(buffer_size) returns for data, in order
Blocks(data) ==
  [i \in 1..((Len(data) + BufferSize - 1) \div BufferSize) |->
     SubSeq(data, (i - 1) * BufferSize + 1,
            IF i * BufferSize < Len(data) THEN i * BufferSize ELSE Len(data))]

RECURSIVE Join(_, _)
\* the bytes of the first k blocks
Join(blocks, k) == IF k = 0 THEN <<>> ELSE Join(blocks, k - 1) \o blocks[k]

\* lines 121-133 / 176-189: one attempt of the retry loop, as the work items
\* that can replace the task. open() or one of the read() calls may raise; the
\* blocks read before that were fed to update()
AttemptOutcomes(task) ==
  LET tg == Target(task)
      blocks == Blocks(tg.data)
      fed == [task EXCEPT !.acc = @ \o Join(blocks, Len(blocks))]
  IN  IF tg.errno # "" THEN {OnIOError(task, tg.errno, <<>>)}
      ELSE {IF task.kind = "file" THEN <<Built(fed)>>
            ELSE <<Advance(fed, task.idx + 1)>>}
           \cup {OnIOError(task, "EACCES", <<>>)}
           \cup {OnIOError(task, "EBUSY", Join(blocks, k)) : k \in 0..Len(blocks)}

\* the step from task to the work items next went through except IOError
Raised(task, next) ==
  \/ next = <<>>
  \/ next[1].pc = "done" /\ ~next[1].ok
  \/ next[1].busy > task.busy

\* time.time() after a step that leaves the work items next
Tick(next) == IF next # <<>> /\ next[1].pc = "store" THEN now + 1 ELSE now

\* a worker thread takes the oldest queued work item and runs it up to the
\* end of its first attempt (lines 111-133), or for a folder up to the first
\* open() (lines 151-173, with the os.walk)
Start(t) ==
  /\ tasks[t].pc = "queued"
  /\ \A u \in 1..(t - 1) : tasks[u].pc # "queued"
  /\ Cardinality({u \in DOMAIN tasks : Running(u)}) < MaxWorkers
  /\ LET task == tasks[t]
         walked == IF fs[task.key].kind = "dir"
                   THEN SortPaths(WalkFiles(fs[task.key].files)) ELSE <<>>
         begun == [task EXCEPT !.noroot = (fs[task.key].kind = "none")]
     IN  \E next \in IF task.kind = "file"
                     THEN AttemptOutcomes([begun EXCEPT !.pc = "open"])
                     ELSE {<<Advance([begun EXCEPT !.files = walked], 1)>>} :
           /\ tasks' = Splice(t, next)
           /\ now' = Tick(next)
           /\ erred' = (erred \/ Raised(task, next))
  /\ UNCHANGED <<fs, cache, nsub, executor, observer, events, lpc, resp, ops,
                 hist, last, hx, call>>

\* an attempt that stores what it has hashed so far when it gives up
AttemptStoresPartial(t) ==
  /\ tasks[t].pc = "open"
  /\ \E next \in AttemptOutcomes(tasks[t]) :
       /\ tasks' = Splice(t, next)
       /\ now' = Tick(next)
       /\ erred' = (erred \/ Raised(tasks[t], next))
       /\ cache' = IF next = <<>> \/ next[1].pc = "done"
                   THEN Put(cache, tasks[t].key, Built(tasks[t]).res)
                   ELSE cache
  /\ UNCHANGED <<fs, nsub, executor, observer, events, lpc, resp, ops, hist,
                 last, hx, call>>

\* a later attempt of calculate_hash, or an attempt on the current file of
\* calculate_folder_hash
Attempt(t) ==
  /\ tasks[t].pc = "open"
  /\ \E next \in AttemptOutcomes(tasks[t]) :
       /\ tasks' = Splice(t, next)
       /\ now' = Tick(next)
       /\ erred' = (erred \/ Raised(tasks[t], next))
  /\ UNCHANGED <<fs, cache, nsub, executor, observer, events, lpc, resp, ops,
                 hist, last, hx, call>>

\* lines 145-147 / 203-205: HASH_CACHE[key] = result; return result
Store(t) ==
  /\ tasks[t].pc = "store"
  /\ cache' = Put(cache, tasks[t].key, tasks[t].res)
  /\ tasks' = Splice(t, Finished(tasks[t], TRUE))
  /\ UNCHANGED <<fs, nsub, executor, observer, events, lpc, now, resp, ops,
                 hist, last, erred, hx, call>>

\* ---------------------------------------------------------------- lifespan
\* lines 219-228: makedirs, EXECUTOR = ThreadPoolExecutor(...)
Startup ==
  /\ lpc = "start"
  /\ executor' = "running"
  /\ lpc' = "sweep"
  /\ UNCHANGED <<fs, cache, tasks, nsub, observer, events, now, resp, ops, hist,
                 last, erred, hx, call>>

\* the orders in which glob can list the names of S
Orders(S) ==
  {o \in [1..Cardinality(S) -> S] : \A i, j \in DOMAIN o : i # j => o[i] # o[j]}

\* lines 82-95 of calculate_hashes_on_startup: glob("*") and one submit per item
SweepSubmit ==
  /\ lpc = "sweep"
  /\ \E files \in Orders({n \in Names : fs[n].kind # "none"}) :
       /\ tasks' = tasks \o [i \in DOMAIN files |->
                      NewTask(nsub + i, fs[files[i]].kind,
                              PathName(PathOf(files[i])), TRUE)]
       /\ nsub' = nsub + Len(files)
  /\ lpc' = "sweep_wait"
  /\ UNCHANGED <<fs, cache, executor, observer, events, now, resp, ops, hist,
                 last, erred, hx, call>>

\* lines 82-95 raise: glob, or is_file / is_dir on the item after the first k
\* listed, fails with an error pathlib does not ignore (the staging directory
\* cannot be searched). The work items already submitted stay in the pool, the
\* exception leaves the sweep and the try block of lifespan, is logged at
\* lines 247-248, and lifespan yields at line 250 without an observer
SweepRaises ==
  /\ lpc = "sweep"
  /\ \E files \in Orders({n \in Names : fs[n].kind # "none"}) :
       \E k \in 0..(IF files = <<>> THEN 0 ELSE Len(files) - 1) :
         /\ tasks' = tasks \o [i \in 1..k |->
                        NewTask(nsub + i, fs[files[i]].kind,
                                PathName(PathOf(files[i])), FALSE)]
         /\ nsub' = nsub + k
  /\ lpc' = "running"
  /\ UNCHANGED <<fs, cache, executor, observer, events, now, resp, ops, hist,
                 last, erred, hx, call>>

\* the next future of the for loop of lines 98-107: the first not yet collected
NextFuture == CHOOSE t \in DOMAIN tasks :
                /\ tasks[t].pc # "collected"
                /\ \A u \in 1..(t - 1) : tasks[u].pc = "collected"

\* lines 98-103: future.result() of the next future, stored when not None
SweepCollect ==
  /\ lpc = "sweep_wait"
  /\ \E t \in DOMAIN tasks : tasks[t].pc # "collected"
  /\ tasks[NextFuture].pc = "done"
  /\ cache' = IF tasks[NextFuture].ok
              THEN Put(cache, tasks[NextFuture].res.filename, tasks[NextFuture].res)
              ELSE cache
  /\ tasks' = [tasks EXCEPT ![NextFuture].pc = "collected"]
  /\ UNCHANGED <<fs, nsub, executor, observer, events, lpc, now, resp, ops,
                 hist, last, erred, hx, call>>

\* a lifespan that starts the observer without waiting for the futures
StartObserverEarly ==
  /\ lpc = "sweep_wait"
  /\ observer' = "alive"
  /\ lpc' = "running"
  /\ UNCHANGED <<fs, cache, tasks, nsub, executor, events, now, resp, ops, hist,
                 last, erred, hx, call>>

\* lines 234-245: the sweep returned, its futures are dropped; OBSERVER.start();
\* yield
StartObserver ==
  /\ lpc = "sweep_wait"
  /\ \A t \in DOMAIN tasks : tasks[t].pc = "collected"
  /\ tasks' = <<>>
  /\ observer' = "alive"
  /\ lpc' = "running"
  /\ UNCHANGED <<fs, cache, nsub, executor, events, now, resp, ops, hist, last,
                 erred, hx, call>>

\* a shutdown that leaves the observer running
StopObserverSkipped ==
  /\ lpc = "running"
  /\ resp' = NoResp
  /\ lpc' = "stopping"
  /\ UNCHANGED <<fs, cache, tasks, nsub, executor, observer, events, now, ops,
                 hist, last, erred, hx, call>>

\* lines 255-259: OBSERVER.stop(); OBSERVER.join(timeout=5), when there is an
\* observer. The join returns when the observer's thread has ended, or after
\* the timeout with the thread still in the dispatch of the event it took
StopObserver ==
  /\ lpc = "running"
  /\ \E joined \in IF observer = "alive" /\ events # <<>> THEN BOOLEAN ELSE {TRUE} :
       /\ observer' = IF observer # "alive" THEN observer
                      ELSE IF joined THEN "stopped" ELSE "stopping"
       /\ events' = IF joined THEN <<>> ELSE <<Head(events)>>
  /\ resp' = NoResp
  /\ lpc' = "stopping"
  /\ UNCHANGED <<fs, cache, tasks, nsub, executor, now, ops, hist, last, erred,
                 hx, call>>

\* lines 261-264: EXECUTOR.shutdown(wait=False)
ShutdownPool ==
  /\ lpc = "stopping"
  /\ executor' = "shutdown"
  /\ lpc' = "clearing"
  /\ UNCHANGED <<fs, cache, tasks, nsub, observer, events, now, resp, ops, hist,
                 last, erred, hx, call>>

\* lines 266-268: HASH_CACHE.clear()
ClearCache ==
  /\ lpc = "clearing"
  /\ cache' = <<>>
  /\ lpc' = "stopped"
  /\ UNCHANGED <<fs, tasks, nsub, executor, observer, events, now, resp, ops,
                 hist, last, erred, hx, call>>

\* ------------------------------------------------------------ HTTP lookup
\* a lookup that starts the computation of a name it does not find
get_hash_computing(filename) ==
  /\ lpc = "running"
  /\ ops < MaxOps
  /\ ops' = ops + 1
  /\ resp' = IF filename \in DOMAIN cache
             THEN [name |-> filename, code |-> 200, hash |-> cache[filename].hash]
             ELSE [name |-> filename, code |-> 404, hash |-> <<>>]
  /\ tasks' = IF filename \in DOMAIN cache THEN tasks
              ELSE Submit("file", PathOf(filename), FALSE)
  /\ nsub' = IF filename \in DOMAIN cache THEN nsub ELSE nsub + 1
  /\ UNCHANGED <<fs, cache, executor, observer, events, lpc, now, hist, last,
                 erred, hx, call>>

\* get_hash(filename): HASH_CACHE.get(filename), 404 when None
get_hash(filename) ==
  /\ lpc = "running"
  /\ ops < MaxOps
  /\ ops' = ops + 1
  /\ resp' = IF filename \in DOMAIN cache
             THEN [name |-> filename, code |-> 200, hash |-> cache[filename].hash]
             ELSE [name |-> filename, code |-> 404, hash |-> <<>>]
  /\ UNCHANGED <<fs, cache, tasks, nsub, executor, observer, events, lpc, now,
                 hist, last, erred, hx, call>>

\* ---------------------------------------------------------- specification
Producer ==
  \/ \E n \in Names, v \in NewContents : BeginWrite(n, v)
  \/ \E n \in Names : WriteChunk(n)
  \/ \E n \in Names, l \in Listings : MkDir(n, l)
  \/ \E n \in Names, l \in Listings : ChangeDir(n, l)
  \/ \E n \in Names : Delete(n)
  \/ \E n, m \in Names : Move(n, m)

Worker ==
  \/ \E t \in DOMAIN tasks : Start(t)
  \/ \E t \in DOMAIN tasks : Attempt(t)
  \/ \E t \in DOMAIN tasks : Store(t)

Lifespan ==
  \/ Startup
  \/ SweepSubmit
  \/ SweepRaises
  \/ SweepCollect
  \/ StartObserver
  \/ StopObserver
  \/ ShutdownPool
  \/ ClearCache

Next ==
  \/ Producer
  \/ on_any_event
  \/ Worker
  \/ Lifespan
  \/ \E n \in Names : get_hash(n)

Spec == Init /\ [][Next]_vars

\* ------------------------------------------- one computation, item unchanged
RelY == <<8>>                            \* relative path of a second contained file
RetryContents == {<<>>, <<1>>, <<1, 2>>}
RetryListings == {{}, {<<RelX, <<1>>>>}, {<<RelX, <<1>>>>, <<RelY, <<2, 1>>>>}}

\* the service runs, the staging directory holds file "a" and directory "b",
\* and one work item was submitted for one of them
InitRetry ==
  /\ \E c \in RetryContents, l \in RetryListings :
       fs = [n \in Names |-> IF n = "a" THEN FileItem(c, FALSE, c) ELSE DirItem(l)]
  /\ cache = <<>>
  /\ tasks \in {<<NewTask(1, "file", "a", FALSE)>>, <<NewTask(1, "dir", "b", FALSE)>>}
  /\ nsub = 1
  /\ executor = "running"
  /\ observer = "alive"
  /\ events = <<>>
  /\ lpc = "running"
  /\ now = 1
  /\ resp = NoResp
  /\ ops = 0
  /\ hist = [n \in Names |-> {Digest(fs[n])}]
  /\ last = [n \in Names |-> "created"]
  /\ erred = FALSE
  /\ hx = NoExperiment
  /\ call = NoCall

NextRetry ==
  \/ \E t \in DOMAIN tasks : Start(t)
  \/ \E t \in DOMAIN tasks : Attempt(t)
  \/ \E t \in DOMAIN tasks : Store(t)

RetrySpec == InitRetry /\ [][NextRetry]_vars

\* ------------------------------------------------------ hashing experiments
MaxPathLen == 3      \* longest relative path of an experiment
MaxFiles == 2        \* most files of a directory tree of an experiment

PathBytes == {1, 2}
RelPaths == UNION {[1..k -> PathBytes] : k \in 1..MaxPathLen}
TreeContents == {<<>>, <<1>>, <<2>>}

RECURSIVE TreesUpTo(_)
\* the directory trees of at most k files, one per path
TreesUpTo(k) ==
  IF k = 0 THEN {{}}
  ELSE LET smaller == TreesUpTo(k - 1)
       IN  smaller \cup
           {tr \cup {<<p, c>>} : tr \in smaller,
                                 p \in RelPaths, c \in TreeContents}

\* the directory trees of the experiments: at most MaxFiles files, one per path
Trees ==
  {tr \in TreesUpTo(MaxFiles) : \A x, y \in tr : x[1] = y[1] => x = y}

\* calculate_folder_hash of a directory tree nobody touches
calculate_folder_hash(tree) == FolderDigest(tree)

\* a directory tree has been hashed
InitDigest ==
  /\ \E tr \in Trees :
       hx = [op |-> "hash", tree |-> tr, digest |-> calculate_folder_hash(tr),
             before |-> <<>>, walk |-> <<>>]
  /\ fs = [n \in Names |-> NoItem]
  /\ cache = <<>>
  /\ tasks = <<>>
  /\ nsub = 0
  /\ executor = "none"
  /\ observer = "none"
  /\ events = <<>>
  /\ lpc = "start"
  /\ now = 1
  /\ resp = NoResp
  /\ ops = 0
  /\ hist = [n \in Names |-> {}]
  /\ last = [n \in Names |-> ""]
  /\ erred = FALSE
  /\ call = NoCall

\* os.rename of the contained file old to the unused path new, and the
\* directory hashed again
RenameFile(old, new) ==
  /\ hx.op = "hash"
  /\ old \in WalkFiles(hx.tree)
  /\ new \notin WalkFiles(hx.tree)
  /\ LET tr == {IF x[1] = old THEN <<new, x[2]>> ELSE x : x \in hx.tree}
     IN  hx' = [op |-> "rename", tree |-> tr, digest |-> calculate_folder_hash(tr),
                before |-> hx.digest, walk |-> <<>>]
  /\ UNCHANGED <<fs, cache, tasks, nsub, executor, observer, events, lpc, now,
                 resp, ops, hist, last, erred, call>>

NextDigest ==
  \/ \E old, new \in RelPaths : RenameFile(old, new)

DigestSpec == InitDigest /\ [][NextDigest]_vars

\* ------------------------------------------- experiments on one directory tree
RECURSIVE Insert(_, _)
\* the ascending list s with path p put at its place
Insert(p, s) ==
  IF s = <<>> THEN <<p>>
  ELSE IF LexLess(p, Head(s)) THEN <<p>> \o s
  ELSE <<Head(s)>> \o Insert(p, Tail(s))

\* a list that is left in the order os.walk produced it
KeepOrder(s) == s

RECURSIVE SortList(_)
\* all_files.sort() on the list os.walk produced
SortList(s) == IF s = <<>> THEN <<>> ELSE Insert(Head(s), SortList(Tail(s)))

\* calculate_folder_hash of a directory tree whose files os.walk lists in the
\* order all_files
calculate_folder_hash_walked(tree, all_files) ==
  FoldFiles(tree, SortList(all_files), 1)

\* a file with content c is created at the unused relative path p, and the
\* directory hashed again
AddFile(p, c) ==
  /\ hx.op = "hash"
  /\ p \notin WalkFiles(hx.tree)
  /\ Cardinality(hx.tree) < MaxFiles
  /\ LET tr == hx.tree \cup {<<p, c>>}
     IN  hx' = [op |-> "add", tree |-> tr, digest |-> calculate_folder_hash(tr),
                before |-> hx.digest, walk |-> <<>>]
  /\ UNCHANGED <<fs, cache, tasks, nsub, executor, observer, events, lpc, now,
                 resp, ops, hist, last, erred, call>>

\* the contained file p is removed, and the directory hashed again
RemoveFile(p) ==
  /\ hx.op = "hash"
  /\ p \in WalkFiles(hx.tree)
  /\ LET tr == {x \in hx.tree : x[1] # p}
     IN  hx' = [op |-> "remove", tree |-> tr, digest |-> calculate_folder_hash(tr),
                before |-> hx.digest, walk |-> <<>>]
  /\ UNCHANGED <<fs, cache, tasks, nsub, executor, observer, events, lpc, now,
                 resp, ops, hist, last, erred, call>>

\* the same directory is hashed again, os.walk listing its files in the order
\* all_files
Rehash(all_files) ==
  /\ hx.op = "hash"
  /\ hx' = [op |-> "rehash", tree |-> hx.tree,
            digest |-> calculate_folder_hash_walked(hx.tree, all_files),
            before |-> hx.digest, walk |-> all_files]
  /\ UNCHANGED <<fs, cache, tasks, nsub, executor, observer, events, lpc, now,
                 resp, ops, hist, last, erred, call>>

NextTree ==
  \/ \E p \in RelPaths, c \in TreeContents : AddFile(p, c)
  \/ \E p \in RelPaths : RemoveFile(p)
  \/ \E all_files \in Orders(WalkFiles(hx.tree)) : Rehash(all_files)

TreeSpec == InitDigest /\ [][NextTree]_vars

\* ------------------------------------------------------- building file paths
\* A Python value: None, an int, a str or a dict.  A str is a sequence of atoms
\* (pieces of text without a path separator), "" is <<>>.  A dict is the
\* sequence of its <<key, value>> items in insertion order, its keys are strs.
None == [t |-> "None", i |-> 0, s |-> <<>>, items |-> <<>>]
PyInt(i) == [t |-> "int", i |-> i, s |-> <<>>, items |-> <<>>]
PyStr(s) == [t |-> "str", i |-> 0, s |-> s, items |-> <<>>]
PyDict(items) == [t |-> "dict", i |-> 0, s |-> <<>>, items |-> items]

\* str(value)
StrOf(value) ==
  IF value.t = "int" THEN <<ToString(value.i)>>
  ELSE IF value.t = "str" THEN value.s
  ELSE IF value.t = "None" THEN <<"None">>
  ELSE <<"{", "}">>

\* key in d, for a dict d
HasKey(d, key) == \E j \in DOMAIN d.items : d.items[j][1] = key

\* d[key], for a dict d that has the key
GetItem(d, key) == d.items[CHOOSE j \in DOMAIN d.items : d.items[j][1] = key][2]

\* list(d.values())
Values(d) == [j \in DOMAIN d.items |-> d.items[j][2]]

\* key.startswith(prefix)
StartsWith(key, prefix) ==
  Len(key) >= Len(prefix) /\ SubSeq(key, 1, Len(prefix)) = prefix

RECURSIVE JoinWith(_, _)
\* sep.join(strs)
JoinWith(sep, strs) ==
  IF strs = <<>> THEN <<>>
  ELSE IF Len(strs) = 1 THEN strs[1]
  ELSE strs[1] \o sep \o JoinWith(sep, Tail(strs))

\* a list with its duplicates kept
KeepDuplicates(l) == l

RECURSIVE Unique(_)
\* list(dict.fromkeys(l)): the first occurrence of each element, in order
Unique(l) ==
  IF l = <<>> THEN <<>>
  ELSE LET init == Unique(SubSeq(l, 1, Len(l) - 1))
       IN  IF \E j \in DOMAIN init : init[j] = l[Len(l)] THEN init
           ELSE Append(init, l[Len(l)])

RECURSIVE Concat(_)
\* the lists of a list of lists, one after the other
Concat(ll) == IF ll = <<>> THEN <<>> ELSE Head(ll) \o Concat(Tail(ll))

\* file_path /= Path(s): Path("") is the current directory and adds nothing
PathJoin(file_path, s) == IF s = <<>> THEN file_path ELSE Append(file_path, s)

\* input_dict.get(key)
DictGet(input_dict, key) ==
  IF key \in DOMAIN input_dict THEN input_dict[key] ELSE None

\* the outcome of a call: the path it returns, or the exception it raises
Returns(file_path) == [error |-> "", file_path |-> file_path]
Raises(error) == [error |-> error, file_path |-> <<>>]

\* key_order: Optional[List[str]]
NoKeyOrder == [given |-> FALSE, keys |-> <<>>]
KeyOrder(keys) == [given |-> TRUE, keys |-> keys]

\* lines 26-36 (biofiles.py 217-227): the key order used when none is given
DefaultKeyOrder ==
  <<"species", "origin", "organType", "cellType", "experimentName",
    "influenceGroups", "sampleID", "ageDIV", "labDevice">>

\* an age segment that prefers ageDIV to ageDAP
ChosenValueDIVFirst(input_dict) ==
  IF DictGet(input_dict, "ageDIV").t # "None"
  THEN <<"DIV">> \o StrOf(input_dict["ageDIV"])
  ELSE IF DictGet(input_dict, "ageDAP").t # "None"
  THEN <<"DAP">> \o StrOf(input_dict["ageDAP"])
  ELSE <<"ageNone">>

\* lines 42-46 (biofiles.py 231-235): chosen_value
ChosenValue(input_dict) ==
  IF DictGet(input_dict, "ageDAP").t # "None"
  THEN <<"DAP">> \o StrOf(input_dict["ageDAP"])
  ELSE IF DictGet(input_dict, "ageDIV").t # "None"
  THEN <<"DIV">> \o StrOf(input_dict["ageDIV"])
  ELSE <<"ageNone">>

\* lines 53-57: the groups whose key starts with "influence", in order
InfluenceGroupsList(groups) ==
  Values(PyDict(SelectSeq(groups.items,
                        LAMBDA it : StartsWith(it[1], <<"influence">>))))

\* lines 59-64, for one group: its entries that are not None
Entries(influence_group) ==
  SelectSeq(Values(influence_group), LAMBDA value : value.t # "None")

\* lines 59-64: value["name"] of every entry of every group, in order
InfluenceNames(groups) ==
  LET of_group(g) == [j \in DOMAIN Entries(g) |->
                        GetItem(Entries(g)[j], <<"name">>).s]
      gl == InfluenceGroupsList(groups)
  IN  Concat([j \in DOMAIN gl |-> of_group(gl[j])])

\* value["name"] of line 60 raises KeyError: an entry without a name
NamelessEntry(groups) ==
  LET gl == InfluenceGroupsList(groups)
  IN  \E j \in DOMAIN gl : \E k \in DOMAIN Entries(gl[j]) :
        ~HasKey(Entries(gl[j])[k], <<"name">>)

\* lines 66-67: the names, unique in order of first occurrence, joined by "_"
InfluenceSegment(groups) == JoinWith(<<"_">>, Unique(InfluenceNames(groups)))

\* lines 76-83: the names of the nested dicts of value, joined by "_"
NestedValues(value) ==
  LET named == SelectSeq(Values(value),
                         LAMBDA v : v.t = "dict" /\ HasKey(v, <<"name">>))
  IN  JoinWith(<<"_">>, [j \in DOMAIN named |-> StrOf(GetItem(named[j], <<"name">>))])

\* a loop that passes over every key the input does not have
EveryKeySkippable(key) == TRUE

\* lines 100-101: the key that may be absent from the input
Skippable(key) == key = "influence"

RECURSIVE ForKeys(_, _, _, _)
\* lines 48-106 (biofiles.py 237-292): the for loop from key_order[i] on
ForKeys(input_dict, key_order, i, file_path) ==
  IF i > Len(key_order) THEN Returns(file_path)
  ELSE
    LET key == key_order[i]
    IN  IF key \in {"ageDIV", "ageDAP"}
        THEN ForKeys(input_dict, key_order, i + 1, file_path)
        ELSE IF key = "influenceGroups" /\ key \notin DOMAIN input_dict
        THEN Raises("KeyError")
        ELSE IF key = "influenceGroups" /\ input_dict[key].t # "dict"
        THEN Raises("TypeError")
        ELSE IF key = "influenceGroups" /\ NamelessEntry(input_dict[key])
        THEN Raises("KeyError")
        ELSE
          LET grouped == IF key = "influenceGroups"
                         THEN PathJoin(file_path, InfluenceSegment(input_dict[key]))
                         ELSE file_path
          IN  IF key \in DOMAIN input_dict
              THEN LET value == input_dict[key]
                       valued ==
                         IF value.t = "dict"
                         THEN PathJoin(grouped, NestedValues(value))
                         ELSE PathJoin(grouped,
                                       IF key = "sampleID"
                                       THEN <<"sID">> \o StrOf(value)
                                       ELSE StrOf(value))
                       aged == IF key = "sampleID"
                               THEN PathJoin(valued, ChosenValue(input_dict))
                               ELSE valued
                   IN  ForKeys(input_dict, key_order, i + 1, aged)
              ELSE IF Skippable(key)
              THEN ForKeys(input_dict, key_order, i + 1, grouped)
              ELSE Raises("KeyError")

\* create_filepath_from_keys(input_dict, key_order), base_path "./data"
create_filepath_from_keys(input_dict, key_order) ==
  ForKeys(input_dict,
          IF key_order.given THEN key_order.keys ELSE DefaultKeyOrder,
          1, <<<<"data">>>>)

\* model/biofile.py: the fields of FilecontextOptional, InfluenceGroup, LabDevice
FilecontextFields ==
  {"species", "origin", "organType", "cellType", "brainRegion", "experimentName",
   "sampleID", "ageDIV", "ageDAP", "influenceGroups", "labDevice"}
InfluenceGroupFields ==
  << <<"control">>, <<"sham">>, <<"pharmacology">>, <<"radiation">>,
     <<"stimulus">>, <<"disease">> >>
LabDeviceFields == << <<"microscope">>, <<"mea">> >>

\* model_dump(exclude_none=False) of a nested model: every field, in the order
\* of the class, None when unset
DumpModel(d, fields) ==
  PyDict([j \in DOMAIN fields |->
          <<fields[j], IF HasKey(d, fields[j]) THEN GetItem(d, fields[j]) ELSE None>>])

\* biofiles.py 215: experiment_data.model_dump(exclude_none=False)
model_dump(experiment_data) ==
  [k \in FilecontextFields |->
     IF k \notin DOMAIN experiment_data \/ experiment_data[k].t = "None" THEN None
     ELSE IF k = "influenceGroups"
     THEN PyDict([j \in DOMAIN experiment_data[k].items |->
                  <<experiment_data[k].items[j][1],
                    DumpModel(experiment_data[k].items[j][2], InfluenceGroupFields)>>])
     ELSE IF k = "labDevice" THEN DumpModel(experiment_data[k], LabDeviceFields)
     ELSE experiment_data[k]]

\* biofiles.py 210-304: the /filepath endpoint; a KeyError becomes a 400 reply
create_filepath(experiment_data, key_order) ==
  ForKeys(model_dump(experiment_data),
          IF key_order.given THEN key_order.keys ELSE DefaultKeyOrder, 1, <<>>)

\* ---- the calls examined
MaxGroups == 2       \* most influence groups of an input
MaxMissing == 1      \* most required keys an input lacks

RequiredKeys ==
  {"species", "origin", "organType", "cellType", "experimentName",
   "influenceGroups", "sampleID", "labDevice"}
AgeKeys == {"ageDIV", "ageDAP"}

\* an influence or a device with its name
Named(name) == PyDict(<< <<<<"name">>, PyStr(<<name>>)>> >>)

\* the dicts of at most max items with keys of Keys, in any order, and values
\* of Vals
DictsOver(Keys, Vals, max) ==
  UNION { UNION { {PyDict([j \in DOMAIN o |-> <<o[j], vs[j]>>]) : vs \in [DOMAIN o -> Vals]}
                  : o \in Orders(S) }
          : S \in {T \in SUBSET Keys : Cardinality(T) <= max} }

InfluenceKeys == {<<"control">>, <<"pharmacology">>}
Influences == {Named("Control"), Named("Bicuculline"), None}
Groups == DictsOver(InfluenceKeys, Influences, Cardinality(InfluenceKeys))
GroupKeys == {<<"influence", "Group1">>, <<"influence", "Group2">>, <<"cohort">>}

\* influenceGroups of backend/tests/resources/template_base.json
TemplateGroups ==
  PyDict(<< << <<"influence", "Group1">>,
             PyDict(<< <<<<"control">>, Named("Control")>>,
                     <<<<"pharmacology">>, Named("Bicuculline")>> >>) >> >>)

LabDevices ==
  {PyDict(<< <<<<"microscope">>, None>>, <<<<"mea">>, Named("MEA")>> >>), PyDict(<<>>)}

\* an input with every key
FullInput(groups, device, div, dap) ==
  [k \in RequiredKeys \cup AgeKeys |->
     IF k = "species" THEN PyStr(<<"Human">>)
     ELSE IF k = "origin" THEN PyStr(<<"Primary">>)
     ELSE IF k = "organType" THEN PyStr(<<"Cardio">>)
     ELSE IF k = "cellType" THEN PyStr(<<"Cardiospheres">>)
     ELSE IF k = "experimentName" THEN PyStr(<<"exp">>)
     ELSE IF k = "influenceGroups" THEN groups
     ELSE IF k = "sampleID" THEN PyInt(1)
     ELSE IF k = "ageDIV" THEN div
     ELSE IF k = "ageDAP" THEN dap
     ELSE device]

\* del input_dict[k] for every k of keys
Without(input_dict, keys) == [k \in (DOMAIN input_dict) \ keys |-> input_dict[k]]

\* inputs that vary the ages, the device and the keys that are missing
SparseInputs ==
  {Without(FullInput(g, d, div, dap), M \cup A) :
     g \in {PyDict(<<>>), TemplateGroups}, d \in LabDevices,
     div \in {None, PyInt(4)}, dap \in {None, PyInt(3)},
     M \in {T \in SUBSET RequiredKeys : Cardinality(T) <= MaxMissing},
     A \in SUBSET AgeKeys}

\* the input whose influence groups are varied: none so far
GroupedInput ==
  FullInput(PyDict(<<>>), CHOOSE d \in LabDevices : d.items # <<>>, None, PyInt(3))

\* the key orders passed: none, the one of frontend/component/general.py, and
\* one without the influences and the device
KeyOrders ==
  {NoKeyOrder,
   KeyOrder(<<"species", "origin", "organType", "cellType">>),
   KeyOrder(<<"species", "sampleID">>)}

Calls ==
  {[via |-> v, input_dict |-> d, key_order |-> ko, done |-> FALSE, error |-> "",
    file_path |-> <<>>] :
     v \in {"function", "endpoint"}, d \in SparseInputs, ko \in KeyOrders}

\* a call is about to be made
InitPath ==
  /\ call \in Calls
  /\ fs = [n \in Names |-> NoItem]
  /\ cache = <<>>
  /\ tasks = <<>>
  /\ nsub = 0
  /\ executor = "none"
  /\ observer = "none"
  /\ events = <<>>
  /\ lpc = "start"
  /\ now = 1
  /\ resp = NoResp
  /\ ops = 0
  /\ hist = [n \in Names |-> {}]
  /\ last = [n \in Names |-> ""]
  /\ erred = FALSE
  /\ hx = NoExperiment

\* the caller puts one more group into input_dict["influenceGroups"] (lines
\* 158-198 of the tests vary the groups of the template in this way)
AddGroup(key, group) ==
  /\ call.via = "function"
  /\ ~call.done
  /\ ~call.key_order.given
  /\ DOMAIN call.input_dict = DOMAIN GroupedInput
  /\ [call.input_dict EXCEPT !["influenceGroups"] = PyDict(<<>>)] = GroupedInput
  /\ Len(call.input_dict["influenceGroups"].items) < MaxGroups
  /\ ~HasKey(call.input_dict["influenceGroups"], key)
  /\ call' = [call EXCEPT !.input_dict["influenceGroups"] =
                            PyDict(Append(@.items, <<key, group>>))]
  /\ UNCHANGED <<fs, cache, tasks, nsub, executor, observer, events, lpc, now,
                 resp, ops, hist, last, erred, hx>>

\* the call of create_filepath_from_keys returns or raises
CallFromKeys ==
  /\ call.via = "function"
  /\ ~call.done
  /\ LET out == create_filepath_from_keys(call.input_dict, call.key_order)
     IN  call' = [call EXCEPT !.done = TRUE, !.error = out.error,
                              !.file_path = out.file_path]
  /\ UNCHANGED <<fs, cache, tasks, nsub, executor, observer, events, lpc, now,
                 resp, ops, hist, last, erred, hx>>

\* the request to /filepath is answered
PostFilepath ==
  /\ call.via = "endpoint"
  /\ ~call.done
  /\ LET out == create_filepath(call.input_dict, call.key_order)
     IN  call' = [call EXCEPT !.done = TRUE, !.error = out.error,
                              !.file_path = out.file_path]
  /\ UNCHANGED <<fs, cache, tasks, nsub, executor, observer, events, lpc, now,
                 resp, ops, hist, last, erred, hx>>

NextPath ==
  \/ \E key \in GroupKeys, group \in Groups : AddGroup(key, group)
  \/ CallFromKeys
  \/ PostFilepath

PathSpec == InitPath /\ [][NextPath]_vars

\* ================================================================= claims
\* C1: per-name ordering. The cache write path discards the completion of an
\* older trigger: a stored entry is never replaced by the result of a work item
\* submitted before the one whose result it holds, so after both have
\* completed the entry is the newer one's.
C1_OlderNeverOverwritesNewer ==
  [][\A n \in (DOMAIN cache) \cap (DOMAIN cache') :
       cache'[n].seq >= cache[n].seq]_vars

\* C2: after the handler of a "deleted" event for n has returned, a lookup of n
\* finds no entry until a created, modified or moved-to event for n has been
\* handled, whatever the work items do.
C2_DeletedStaysAbsent ==
  \A n \in Names : last[n] = "deleted" => n \notin DOMAIN cache

\* C3: a computation whose attempts failed with the busy error fewer than
\* Retries times and then succeeded yields the digest of a clean read of the
\* same content, for a file and for every file of a folder: with the item
\* unchanged, what is stored is the digest of the item.
C3_BusyRetryTransparent ==
  \A n \in DOMAIN cache : cache[n].hash = Digest(fs[n])

\* C4: every stored digest is the digest of a complete version of the item,
\* never of what was read while a producer was still writing.
C4_NoDigestOfIncompleteFile ==
  \A n \in DOMAIN cache : cache[n].hash \in hist[n]

\* the service runs and nothing is left to do: no event waits and no work item
\* is queued or running
Quiet == lpc = "running" /\ events = <<>> /\ tasks = <<>>

\* C5: once an item was overwritten and its "modified" event was the last event
\* for the name, the lookup ends up returning the digest of the new content:
\* when all the work is done (and no read ever failed) the entry holds it.
C5_ModifiedEndsWithNewDigest ==
  \A n \in Names :
    (Quiet /\ ~erred /\ last[n] = "modified" /\ fs[n].kind # "none"
       /\ ~fs[n].writing)
    => (n \in DOMAIN cache /\ cache[n].hash = Digest(fs[n]))

\* calculate_hashes_on_startup has collected every future and is about to return
SweepReturns ==
  lpc = "sweep_wait" /\ \A t \in DOMAIN tasks : tasks[t].pc = "collected"

Answer(d, n) ==
  IF n \in DOMAIN d THEN [name |-> n, code |-> 200, hash |-> d[n].hash]
  ELSE [name |-> n, code |-> 404, hash |-> <<>>]

\* C7: a lookup is a pure read. The step that produces a response answers from
\* the cache alone (the digest of the entry, or 404 for a name without one,
\* computed or not) and changes neither the cache nor the work of the pool.
C7_LookupOnlyReads ==
  [][(resp' # resp /\ resp' # NoResp) =>
       /\ \E n \in Names : resp' = Answer(cache, n)
       /\ cache' = cache
       /\ tasks' = tasks
       /\ nsub' = nsub
       /\ events' = events]_vars

\* C7 witness: a lookup answered 404 for a name whose computation is under way
C7_AbsentWhileComputing ==
  /\ resp.code = 404
  /\ \E t \in DOMAIN tasks : tasks[t].key = resp.name

\* the step ends work item t with a failure: it had no result yet and is gone,
\* or its future is done and holds None
Fails(t) ==
  /\ tasks[t].pc \in {"queued", "open"}
  /\ \A u \in DOMAIN tasks' :
       tasks'[u].id = tasks[t].id => tasks'[u].pc = "done" /\ ~tasks'[u].ok

\* C8: a failed computation leaves the cache exactly as it was and leaves the
\* pool and the other work items as they were.
C8_FailureLeavesCache ==
  [][\A t \in DOMAIN tasks :
       Fails(t) =>
         /\ cache' = cache
         /\ executor' = executor
         /\ \A u \in DOMAIN tasks \ {t} :
              \E w \in DOMAIN tasks' : tasks'[w] = tasks[u]]_vars

\* C8 witness: the recomputation of a modified item failed and the entry the
\* sweep had stored for it is still there
C8_PriorEntryKept ==
  /\ Quiet
  /\ nsub = 2
  /\ \E n \in DOMAIN cache : last[n] = "modified" /\ cache[n].seq = 1

\* C9: hashing a root path that does not exist returns an error and writes no
\* entry: no entry comes from a work item whose root was missing when it started.
C9_MissingRootWritesNothing ==
  \A n \in DOMAIN cache : ~cache[n].noroot

\* C10: renaming one contained file, its content and the other files
\* untouched, changes the digest of the directory.
C10_RenameChangesDigest ==
  hx.op = "rename" => hx.digest # hx.before

\* C11: adding a file to a directory, or removing one from it, the other files
\* untouched, changes the digest of the directory.
C11_AddRemoveChangesDigest ==
  hx.op \in {"add", "remove"} => hx.digest # hx.before

\* C11 witness: an empty file was added at a path that extends the path of
\* the file already there
C11_EmptyFileAdded ==
  /\ hx.op = "add"
  /\ \E x, y \in hx.tree :
       /\ x[2] = <<>>
       /\ Len(x[1]) > Len(y[1])
       /\ SubSeq(x[1], 1, Len(y[1])) = y[1]
       /\ hx.before = y[1] \o y[2]

\* C12: the digest of a directory depends only on its set of (relative path,
\* content) pairs: whatever the order in which its files are enumerated, the
\* digest is the same.
C12_EnumerationOrderIrrelevant ==
  hx.op = "rehash" => hx.digest = hx.before

\* C12 witness: the files were enumerated in descending order of their paths
C12_WalkedBackwards ==
  /\ hx.op = "rehash"
  /\ Len(hx.walk) >= 2
  /\ \A i \in 1..(Len(hx.walk) - 1) : LexLess(hx.walk[i + 1], hx.walk[i])

\* C13: a failure of the startup sweep does not keep the watcher from being
\* started: whenever the application has reached the running state, failed
\* sweep or not, the observer is alive.
C13_WatcherRunsAfterStartup ==
  lpc = "running" => observer = "alive"

\* C14: the cache is empty whenever the subsystem is stopped: before start
\* begins, and from the end of stop on, whatever the work items that were
\* queued or running at shutdown do.
C14_EmptyWhenStopped ==
  lpc \in {"start", "stopped"} => cache = <<>>

\* the key order a call works with
EffectiveOrder == IF call.key_order.given THEN call.key_order.keys ELSE DefaultKeyOrder

\* the call has returned a path
Returned == call.done /\ call.error = ""

\* the positions of list l that hold x
Positions(l, x) == {j \in DOMAIN l : l[j] = x}

\* the age segment the input calls for: DAP before DIV, "ageNone" without both
AgeSegment ==
  LET dap == DictGet(call.input_dict, "ageDAP")
      div == DictGet(call.input_dict, "ageDIV")
  IN  IF dap.t = "int" THEN <<"DAP", ToString(dap.i)>>
      ELSE IF div.t = "int" THEN <<"DIV", ToString(div.i)>>
      ELSE <<"ageNone">>

\* the segment "sID<sampleID>" of the input
SampleSegment == <<"sID">> \o StrOf(DictGet(call.input_dict, "sampleID"))

\* the path components the labDevice of the input gives: the names of its
\* devices joined by "_", none when no device is named
DeviceSegments ==
  LET device == DictGet(call.input_dict, "labDevice")
      named == SelectSeq(Values(device),
                         LAMBDA v : v.t = "dict" /\ HasKey(v, <<"name">>))
      joined == JoinWith(<<"_">>, [j \in DOMAIN named |->
                                     GetItem(named[j], <<"name">>).s])
  IN  IF device.t # "dict" THEN <<StrOf(device)>>
      ELSE IF joined = <<>> THEN <<>> ELSE <<joined>>

RECURSIVE FirstsFrom(_, _)
\* the elements of l from position j on that do not occur earlier in l
FirstsFrom(l, j) ==
  IF j > Len(l) THEN <<>>
  ELSE (IF \E k \in 1..(j - 1) : l[k] = l[j] THEN <<>> ELSE <<l[j]>>)
       \o FirstsFrom(l, j + 1)

\* the influence names of the input: over the groups whose key starts with
\* "influence", in group order, and inside a group in entry order
NamesInOrder ==
  LET groups == SelectSeq(call.input_dict["influenceGroups"].items,
                          LAMBDA it : it[1][1] = "influence")
      names(g) == LET es == SelectSeq(g.items, LAMBDA it : it[2].t = "dict")
                  IN  [j \in DOMAIN es |-> es[j][2].items[1][2].s]
  IN  Concat([j \in DOMAIN groups |-> names(groups[j][2])])

\* C16: in the path create_filepath_from_keys returns, the influence segment
\* is the influence names in group order and entry order, later duplicates
\* removed, joined by "_"; it follows the experimentName segment, and when
\* there is no name the path holds no component for it and the sID segment
\* follows directly.
C16_InfluenceSegment ==
  (Returned /\ call.via = "function" /\ ~call.key_order.given) =>
    LET expected == JoinWith(<<"_">>, FirstsFrom(NamesInOrder, 1))
        at == 1 + CHOOSE j \in DOMAIN call.file_path :
                    call.file_path[j] = StrOf(call.input_dict["experimentName"])
    IN  IF expected = <<>> THEN call.file_path[at] = SampleSegment
        ELSE call.file_path[at] = expected /\ call.file_path[at + 1] = SampleSegment

\* C16 witness: two groups name the same influence, and the path holds it once
C16_DuplicateAcrossGroups ==
  /\ Returned
  /\ call.via = "function"
  /\ ~call.key_order.given
  /\ Len(FirstsFrom(NamesInOrder, 1)) = 2
  /\ Len(NamesInOrder) = 4
  /\ NamesInOrder[1] # NamesInOrder[2]

\* C17: create_filepath_from_keys raises KeyError and returns no path whenever
\* one of the required keys is missing from the input, and with all of them
\* present the absence of ageDIV or ageDAP does not make it raise.
C17_MissingKeyRaises ==
  (call.done /\ call.via = "function" /\ ~call.key_order.given) =>
    IF RequiredKeys \subseteq DOMAIN call.input_dict
    THEN call.error = ""
    ELSE call.error = "KeyError" /\ call.file_path = <<>>

\* C17 witness: the input lacks labDevice, the last key of the order, and no
\* age: KeyError
C17_DeviceMissing ==
  /\ call.done
  /\ call.via = "function"
  /\ ~call.key_order.given
  /\ DOMAIN call.input_dict = RequiredKeys \ {"labDevice"}
  /\ call.error = "KeyError"

\* work item t is at an open(): in the retry loop, or a queued file task, whose
\* start runs up to the end of its first attempt
Attempting(t) ==
  \/ tasks[t].pc = "open"
  \/ tasks[t].pc = "queued" /\ tasks[t].kind = "file"

\* the step runs work item t
ActsOn(t) == \A u \in DOMAIN tasks' : tasks'[u] # tasks[t]

\* C18: an attempt that fails with an I/O error other than busy (the file is
\* not there, or is not a regular file) ends the computation in that very
\* step with a failure: no further attempt, no retry delay, no cache write.
C18_OtherErrorsEndAtOnce ==
  [][\A t \in DOMAIN tasks :
       (Attempting(t) /\ Target(tasks[t]).errno # "" /\ ActsOn(t))
         => (Fails(t) /\ cache' = cache)]_vars

\* C18 witness: a folder task is at the open() of a file that was removed
\* after os.walk listed it
C18_FileGoneBeforeOpen ==
  \E t \in DOMAIN tasks :
    /\ tasks[t].kind = "dir"
    /\ tasks[t].pc = "open"
    /\ tasks[t].attempt = 0
    /\ Target(tasks[t]).errno = "ENOENT"

\* C19: the retry is bounded. A computation makes at most Retries attempts on
\* a file, it sleeps only when it goes on to a further attempt (so at most
\* Retries - 1 times per file and never after the last attempt), and a step
\* of the last attempt either reads the file or ends the computation with a
\* failure and without a cache write.
C19_RetryBounded ==
  [][\A t \in DOMAIN tasks :
      /\ (tasks[t].pc = "open" /\ \A u \in DOMAIN tasks' : tasks'[u].id # tasks[t].id)
           => cache' = cache
      /\ \A u \in DOMAIN tasks' :
       (tasks[t].pc = "open" /\ tasks'[u].id = tasks[t].id) =>
         /\ tasks'[u].attempt <= Retries - 1
         /\ (tasks'[u].pc = "open" /\ tasks'[u].idx = tasks[t].idx) =>
              /\ tasks'[u].attempt \in {tasks[t].attempt, tasks[t].attempt + 1}
              /\ tasks'[u].busy - tasks[t].busy = tasks'[u].attempt - tasks[t].attempt
         /\ (tasks[t].attempt = Retries - 1 /\ tasks'[u] # tasks[t]) =>
              \/ tasks'[u].pc = "store" /\ tasks'[u].busy = tasks[t].busy
              \/ /\ tasks'[u].pc = "open"
                 /\ tasks'[u].idx = tasks[t].idx + 1
                 /\ tasks'[u].busy = tasks[t].busy
              \/ tasks'[u].pc = "done" /\ ~tasks'[u].ok /\ cache' = cache]_vars

\* C19 witness: after Retries - 1 busy attempts and as many sleeps the last
\* attempt on the file is due
C19_LastAttemptDue ==
  \E t \in DOMAIN tasks :
    /\ tasks[t].pc = "open"
    /\ tasks[t].attempt = Retries - 1
    /\ tasks[t].busy = Retries - 1

\* lifespan has not yet returned from calculate_hashes_on_startup
Sweeping == lpc \in {"start", "sweep", "sweep_wait"}

\* C20: startup order. The worker pool exists from the sweep on. Until the
\* sweep has returned there is no observer, no event is queued or handled (no
\* work item other than the sweep's own, no removal), and what the sweep has
\* collected is stored. Once there is an observer, every work item of the
\* sweep has completed and been collected.
C20_StartupOrder ==
  /\ lpc # "start" => executor # "none"
  /\ Sweeping =>
       /\ observer = "none"
       /\ events = <<>>
       /\ last = [n \in Names |-> ""]
       /\ \A t \in DOMAIN tasks :
            /\ tasks[t].swept
            /\ (tasks[t].pc = "collected" /\ tasks[t].ok)
                 => /\ tasks[t].key \in DOMAIN cache
                    /\ cache[tasks[t].key] = tasks[t].res
  /\ observer # "none" => \A t \in DOMAIN tasks : ~tasks[t].swept

\* C20 witness: the staging directory changed while the sweep was running, the
\* sweep has collected and stored all its results, and the observer is still
\* to be started
C20_SweepDoneBeforeObserver ==
  /\ lpc = "sweep_wait"
  /\ ops > 0
  /\ Len(tasks) = 2
  /\ \A t \in DOMAIN tasks : tasks[t].pc = "collected" /\ tasks[t].ok
  /\ observer = "none"

\* the shutdown steps of lifespan are taken once they are enabled: the join
\* has a timeout, shutdown(wait=False) and clear() do not block
StopSpec == Spec /\ WF_vars(ShutdownPool) /\ WF_vars(ClearCache)

\* C21: shutdown order. The pool is shut down only after the observer was told
\* to stop, and without waiting for the work items; the cache is cleared only
\* after the pool was shut down; a shutdown that has begun ends.
C21_ShutdownOrder ==
  /\ [][/\ (executor' = "shutdown" /\ executor # "shutdown")
             => (lpc = "stopping" /\ observer # "alive" /\ tasks' = tasks)
        /\ (lpc' = "stopped" /\ lpc # "stopped")
             => (lpc = "clearing" /\ executor = "shutdown" /\ cache' = <<>>)
        /\ (lpc' = "stopping" /\ lpc # "stopping")
             => (executor = "running" /\ observer' # "alive" /\ cache' = cache)]_vars
  /\ (lpc = "stopping") ~> (lpc = "stopped")

\* C21 witness: the shutdown is over while a work item is still running in
\* the pool that did not wait for it
C21_StoppedWithWorkLeft ==
  /\ lpc = "stopped"
  /\ observer = "stopped"
  /\ executor = "shutdown"
  /\ \E t \in DOMAIN tasks : Running(t)

\* C22: a "moved" event from old to new removes old's entry and submits one
\* recompute of new; once that recompute (the last work item submitted, the
\* move being the last event of both names) has stored its result, the cache
\* holds new's entry and none for old.
C22_MoveReplacesEntry ==
  \A old, new \in Names :
    (/\ last[old] = "moved_from"
     /\ last[new] = "moved_to"
     /\ new \in DOMAIN cache
     /\ cache[new].seq = nsub)
    => old \notin DOMAIN cache

\* the step is a run of on_any_event for an event of the given type
Handles(type) ==
  /\ lpc' = lpc
  /\ events # <<>>
  /\ events' = Tail(events)
  /\ Head(events).event_type = type

\* C23: the handling of a "created" or "modified" event, while the pool takes
\* work, queues exactly one work item, for the last component of the event's
\* path, with the folder hasher for a directory event and the file hasher
\* otherwise; the work item has read nothing yet and the cache is as it was.
C23_EventSubmitsOneRecompute ==
  [][\A type \in {"created", "modified"} :
       (Handles(type) /\ executor = "running") =>
         /\ tasks' = Append(tasks,
                      NewTask(nsub + 1,
                              IF Head(events).is_directory THEN "dir" ELSE "file",
                              PathName(Head(events).src_path), FALSE))
         /\ nsub' = nsub + 1
         /\ cache' = cache
         /\ now' = now]_vars

\* C23 witness: the "modified" event of a folder that has an entry was handled;
\* its work item is queued and the entry is still the old one
C23_ModifiedFolderQueued ==
  \E n \in Names : \E t \in DOMAIN tasks :
    /\ last[n] = "modified"
    /\ tasks[t].pc = "queued"
    /\ tasks[t].kind = "dir"
    /\ tasks[t].key = n
    /\ tasks[t].id = nsub
    /\ n \in DOMAIN cache
    /\ cache[n].seq < nsub

\* entry e has every field of a result dict and names n
Complete(n, e) ==
  /\ e.filename = n
  /\ e.timestamp >= 1
  /\ e.seq >= 1
  /\ e.hash \in Seq(Nat)

\* C24: the cache is well formed. Every entry is complete and is stored under
\* the name in its filename field; an entry only ever appears or changes as a
\* whole, to the result dict of one work item for that name whose reading is
\* over; a response that found an entry carries the digest of a complete one.
C24_CacheWellFormed ==
  /\ [](\A n \in DOMAIN cache : Complete(n, cache[n]))
  /\ [][(resp' # resp /\ resp'.code = 200) =>
          /\ resp'.name \in DOMAIN cache
          /\ Complete(resp'.name, cache[resp'.name])
          /\ resp'.hash = cache[resp'.name].hash]_vars
  /\ [][\A n \in DOMAIN cache' :
          (n \notin DOMAIN cache \/ cache'[n] # cache[n]) =>
            \E t \in DOMAIN tasks :
              /\ tasks[t].pc \in {"store", "done"}
              /\ tasks[t].key = n
              /\ tasks[t].res = cache'[n]]_vars

\* C24 witness: a lookup found the entry of a name whose entry was replaced
\* by a later computation
C24_ReplacedEntryRead ==
  /\ resp.code = 200
  /\ resp.name \in DOMAIN cache
  /\ cache[resp.name].seq > 1
  /\ cache[resp.name].hash = resp.hash
  /\ \E n \in DOMAIN cache : n # resp.name

\* C25: no ghost entries. When the service runs and nothing is left to do (no
\* work item is queued or running, the observer is alive and no event waits),
\* every key of the cache is the name of an item that is in the staging
\* directory.
C25_NoGhostEntries ==
  (Quiet /\ observer = "alive") => \A n \in DOMAIN cache : fs[n].kind # "none"

\* C26: eventual coverage. An item that is in the staging directory, complete,
\* and no longer changing ends up with an entry: when the service runs with
\* its observer alive and nothing is left to do (no work item, no event), so
\* that nothing more will happen for the item, the cache has an entry for it.
C26_StableItemGetsEntry ==
  \A n \in Names :
    (Quiet /\ observer = "alive" /\ fs[n].kind # "none" /\ ~fs[n].writing)
      => n \in DOMAIN cache

\* C27: timestamp monotonicity. From one cache write to the next the
\* timestamp of the entry of a name never decreases, however the work items
\* that compute the name interleave.
C27_TimestampNeverDecreases ==
  [][\A n \in (DOMAIN cache) \cap (DOMAIN cache') :
       cache'[n].timestamp >= cache[n].timestamp]_vars

Changed ==
  {m \in (DOMAIN cache) \cup (DOMAIN cache') :
     \/ m \notin DOMAIN cache
     \/ m \notin DOMAIN cache'
     \/ cache'[m] # cache[m]}

\* C29: per-key frame. A step of the running service that touches the cache
\* touches one name only: a work item for n (or the sweep collecting it) sets
\* the entry of n, the handling of a "deleted" or "moved" event removes the
\* entry of the event's source name; every other entry stays as it was.
C29_PerKeyFrame ==
  [][lpc' = lpc =>
       \/ Changed = {}
       \/ \E t \in DOMAIN tasks :
            /\ ActsOn(t)
            /\ tasks[t].pc \in {"store", "done"}
            /\ Changed = {tasks[t].key}
            /\ tasks[t].key \in DOMAIN cache'
       \/ \E type \in {"deleted", "moved"} :
            /\ Handles(type)
            /\ Changed = {PathName(Head(events).src_path)}
            /\ PathName(Head(events).src_path) \notin DOMAIN cache']_vars

\* C29 witness: both items of the staging directory were swept, the "deleted"
\* event of one was handled and took its entry, and the other's entry is there
C29_OtherEntryKept ==
  \E n, m \in Names :
    /\ n # m
    /\ nsub = 2
    /\ last[n] = "deleted"
    /\ last[m] = ""
    /\ n \notin DOMAIN cache
    /\ m \in DOMAIN cache
    /\ observer = "alive"

\* C30: domain separation. The byte stream hashed for a directory differs from
\* the byte stream hashed for a regular file, whatever the file holds, so the
\* digest of a folder is the digest of no file; in particular not that of the
\* empty file.
C30_FolderDigestIsNoFileDigest ==
  \A data \in TreeContents : hx.digest # FileDigest(data)

====
